---------------------------- MODULE Spec2Model ----------------------------
(***************************************************************************)
(* pipeup-cli: one run of StreamProcessor::process_stdin driving one       *)
(* WebSocketClient (src/src/stream_processor.rs, src/src/websocket.rs).    *)
(*                                                                         *)
(* The run is a single sequential task; an action is the code between two  *)
(* await points.  The environment (stdin, the peer, the clock) chooses the *)
(* outcome of every await.                                                 *)
(***************************************************************************)
EXTENDS Integers, Sequences, FiniteSets

(* ------------------------------ bounds --------------------------------- *)

\* Number of lines stdin can still supply from the initial state on.
MaxInput == 31

\* Line count of the late loop-head state InitCap starts from.
CapStart == 9991

(* ------------------------- program constants --------------------------- *)

\* A buffer of 3 lines.
BUFFER_SIZE_three == 2 + 1

BUFFER_SIZE == 10
INITIAL_DELAY_MS == 100
MIN_DELAY_MS == 50
MAX_DELAY_MS == 2000
MAX_LINES_PER_SECOND == 30
DELAY_STEP_MS == 10
LINE_LIMIT == 10000

(* --------------------------- value domains ----------------------------- *)

\* Option<String>::None of WebSocketClient.stream_id.
None == "<none>"

\* Identifiers a server may assign.
StreamIds == {"s1", "s2"}

\* A JSON value under a key of the handshake response object: the key is
\* missing, holds a string, or holds a value that is not a string.
JAbsent == [t |-> "absent", s |-> ""]
JOther == [t |-> "other", s |-> ""]
JStr(str) == [t |-> "str", s |-> str]

\* The content of the i-th line of stdin.  The code never inspects a line,
\* so a line is modelled by its position: all lines are distinct.
LineText(i) == i

\* What self.sender.next().await can yield: the stream ended (None), a
\* receive error (Some(Err)), a Close frame, another frame (binary, ping),
\* or a text frame.  A text frame is valid JSON or not; a JSON value that is
\* no object answers every get() with None, like an object without the key.
Frame(kind) ==
    [kind |-> kind, valid |-> FALSE, streamId |-> JAbsent, stream_id |-> JAbsent,
     error |-> JAbsent]
TextFrames ==
    {[kind |-> "text", valid |-> TRUE, streamId |-> a, stream_id |-> b, error |-> e] :
        a \in {JAbsent, JOther} \cup {JStr(s) : s \in StreamIds},
        b \in {JAbsent, JOther} \cup {JStr(s) : s \in StreamIds},
        e \in {JAbsent, JStr("unauthorized")}}
    \cup {Frame("text")}
Received == {Frame("none"), Frame("err"), Frame("close"), Frame("other")} \cup TextFrames

\* No response received yet.
NoResponse == Frame("pending")

\* create_stream has returned Ok and its frame has gone out of scope.
Dropped == Frame("dropped")

(* ------------------------------ state ---------------------------------- *)

VARIABLES
    pc,             \* position of the run in process_stdin
    stream_id,      \* WebSocketClient.stream_id
    line_count,     \* StreamProcessor.line_count
    buffer,         \* StreamProcessor.buffer
    adaptive_delay, \* local adaptive_delay of process_stdin
    elapsed,        \* last_batch_time.elapsed() >= adaptive_delay is known to hold
    result,         \* "running", "ok" (Ok(())) or the call whose error was returned
    wire,           \* messages handed to the transport so far, in order
    sleeps,         \* durations of the tokio::time::sleep calls so far, in order
    handshake,      \* the frame create_stream received, until the run goes on
    nread,          \* number of lines next_line() has returned
    stdin_state,    \* "open", "eof" (next_line returned None) or "error"
    stdin_left,     \* lines stdin can still supply (bound of the model)
    end_reply,      \* kind of the frame end_stream received, "pending" before
    flushes_full,   \* send_batch calls of the loop made because the buffer was full
    flushes_time    \* send_batch calls of the loop made because the delay had elapsed

vars == <<pc, stream_id, line_count, buffer, adaptive_delay, elapsed, result,
          wire, sleeps, handshake, nread, stdin_state, stdin_left,
          end_reply, flushes_full, flushes_time>>

(* ------------------------- WebSocketClient ----------------------------- *)

\* The identifier create_stream extracts:
\* get("streamId").or_else(|| get("stream_id")).and_then(|v| v.as_str()).
ExtractStreamId(resp) ==
    LET v == IF resp.streamId # JAbsent THEN resp.streamId ELSE resp.stream_id
    IN  IF v.t = "str" THEN v.s ELSE None

\* create_stream that reports an error payload but does not fail on it.
create_stream_lenient(sid, resp) ==
    IF resp.kind = "text" /\ resp.valid /\ ExtractStreamId(resp) # None
    THEN [ok |-> TRUE, stream_id |-> ExtractStreamId(resp)]
    ELSE [ok |-> resp.kind = "text" /\ resp.valid /\ resp.error # JAbsent,
          stream_id |-> sid]

\* create_stream: [ok, stream_id] for the frame received.
create_stream(sid, resp) ==
    IF resp.kind = "text" /\ resp.valid /\ ExtractStreamId(resp) # None
    THEN [ok |-> TRUE, stream_id |-> ExtractStreamId(resp)]
    ELSE [ok |-> FALSE, stream_id |-> sid]

LineMessage(sid, line) == [type |-> "line", stream_id |-> sid, content |-> line]

EndMessage(sid) == [type |-> "end_stream", stream_id |-> sid, content |-> 0]

\* send_line without the check that the stream was created.
send_line_unchecked(sid, line, sendOk) ==
    IF ~sendOk THEN [ok |-> FALSE, out |-> <<>>]
    ELSE [ok |-> TRUE, out |-> <<LineMessage(sid, line)>>]

\* send_line: [ok, out] where out are the messages handed to the transport.
\* sendOk is the outcome of self.sender.send().
send_line(sid, line, sendOk) ==
    IF sid = None THEN [ok |-> FALSE, out |-> <<>>]
    ELSE IF ~sendOk THEN [ok |-> FALSE, out |-> <<>>]
    ELSE [ok |-> TRUE, out |-> <<LineMessage(sid, line)>>]

\* end_stream up to its send: [ok, out].
end_stream_send(sid, sendOk) ==
    IF sid = None THEN [ok |-> FALSE, out |-> <<>>]
    ELSE IF ~sendOk THEN [ok |-> FALSE, out |-> <<>>]
    ELSE [ok |-> TRUE, out |-> <<EndMessage(sid)>>]

\* end_stream that takes only a text frame for the confirmation.
end_stream_recv_strict(resp) == resp.kind = "text"

\* end_stream after its send: the result for the frame received.
\* `response?` propagates a receive error; everything else is Ok.
end_stream_recv(resp) == resp.kind # "err"

(* ------------------------- StreamProcessor ----------------------------- *)

\* The for loop of send_batch from index i on, out being what the earlier
\* iterations put on the wire; the failAt-th send fails (failAt = 0: none
\* does) and `?` leaves the loop there.
RECURSIVE SendLoop(_, _, _, _, _)
SendLoop(buf, i, sid, failAt, out) ==
    IF i > Len(buf) THEN [ok |-> TRUE, out |-> out]
    ELSE LET s == send_line(sid, buf[i], i # failAt)
         IN  IF ~s.ok THEN [ok |-> FALSE, out |-> out]
             ELSE SendLoop(buf, i + 1, sid, failAt, out \o s.out)

Reverse(seq) == [i \in 1..Len(seq) |-> seq[Len(seq) + 1 - i]]

\* send_batch that walks the buffer from its newest line to its oldest.
send_batch_newest_first(buf, sid, failAt) ==
    IF buf = <<>> THEN [ok |-> TRUE, out |-> <<>>, buffer |-> buf]
    ELSE LET r == SendLoop(Reverse(buf), 1, sid, failAt, <<>>)
         IN  IF r.ok THEN [ok |-> TRUE, out |-> r.out, buffer |-> <<>>]
             ELSE [ok |-> FALSE, out |-> r.out, buffer |-> buf]

\* send_batch that does not clear the buffer after sending it.
send_batch_keeps_buffer(buf, sid, failAt) ==
    IF buf = <<>> THEN [ok |-> TRUE, out |-> <<>>, buffer |-> buf]
    ELSE LET r == SendLoop(buf, 1, sid, failAt, <<>>)
         IN  [ok |-> r.ok, out |-> r.out, buffer |-> buf]

\* send_batch that clears the buffer whether or not a send failed.
send_batch_always_clears(buf, sid, failAt) ==
    IF buf = <<>> THEN [ok |-> TRUE, out |-> <<>>, buffer |-> buf]
    ELSE LET r == SendLoop(buf, 1, sid, failAt, <<>>)
         IN  [ok |-> r.ok, out |-> r.out, buffer |-> <<>>]

\* send_batch: [ok, out, buffer].
send_batch(buf, sid, failAt) ==
    IF buf = <<>> THEN [ok |-> TRUE, out |-> <<>>, buffer |-> buf]
    ELSE LET r == SendLoop(buf, 1, sid, failAt, <<>>)
         IN  IF r.ok THEN [ok |-> TRUE, out |-> r.out, buffer |-> <<>>]
             ELSE [ok |-> FALSE, out |-> r.out, buffer |-> buf]

Max(a, b) == IF a >= b THEN a ELSE b
Min(a, b) == IF a <= b THEN a ELSE b

\* The success branch with half the step.
DelayOnSuccess_half_step(d) == Max(MIN_DELAY_MS, d - DELAY_STEP_MS \div 2)

\* The success branch without its lower clamp.
DelayOnSuccess_unclamped(d) == d - DELAY_STEP_MS

\* adaptive_delay after a successful send_batch in the loop.
DelayOnSuccess(d) == Max(MIN_DELAY_MS, d - DELAY_STEP_MS)

\* The failure branch tripling the delay.
DelayOnFailure_tripling(d) == Min(MAX_DELAY_MS, d * 3)

\* The failure branch growing the delay by the step instead of doubling it.
DelayOnFailure_additive(d) == Min(MAX_DELAY_MS, d + DELAY_STEP_MS)

\* adaptive_delay after a failed send_batch in the loop.
DelayOnFailure(d) == Min(MAX_DELAY_MS, d * 2)

\* should_send_batch with > for >=.
ShouldSendBatch_late(buf, timeUp) == Len(buf) > BUFFER_SIZE \/ timeUp

\* should_send_batch, evaluated after the push.
ShouldSendBatch(buf, timeUp) == Len(buf) >= BUFFER_SIZE \/ timeUp

\* The safety limit tested with >= : the loop is left one line earlier.
AfterIteration_at_limit(lc) == IF lc >= LINE_LIMIT THEN "shutdown" ELSE "read"

\* The iteration without its safety limit.
AfterIteration_unlimited(lc) == "read"

\* Where the loop goes after the safety-limit check that ends an iteration.
AfterIteration(lc) == IF lc > LINE_LIMIT THEN "shutdown" ELSE "read"

\* Which operand of should_send_batch made it true: the length test comes
\* first and || does not evaluate the time test when it holds.
FlushTrigger(buf) == IF Len(buf) >= BUFFER_SIZE THEN "full" ELSE "time"

\* The rate-limit test one line late.
RateLimited_off_by_one(lc) == lc % MAX_LINES_PER_SECOND = 1

\* Whether the rate-limiting sleep follows a successful send_batch.
RateLimited(lc) == lc % MAX_LINES_PER_SECOND = 0

(* ------------------------------ Init ----------------------------------- *)

\* WebSocketClient::new and StreamProcessor::new have returned.
Init ==
    /\ pc = "handshake"
    /\ stream_id = None
    /\ line_count = 0
    /\ buffer = <<>>
    /\ adaptive_delay = INITIAL_DELAY_MS
    /\ elapsed = FALSE
    /\ result = "running"
    /\ wire = <<>>
    /\ sleeps = <<>>
    /\ handshake = NoResponse
    /\ nread = 0
    /\ stdin_state = "open"
    /\ stdin_left = MaxInput
    /\ end_reply = "pending"
    /\ flushes_full = 0
    /\ flushes_time = 0

(* ----------------------------- actions --------------------------------- *)

\* process_stdin line 28: client.create_stream(&self.config).await?
CreateStream ==
    /\ pc = "handshake"
    /\ \E resp \in Received :
         LET r == create_stream(stream_id, resp)
         IN  /\ handshake' = resp
             /\ stream_id' = r.stream_id
             /\ pc' = IF r.ok THEN "created" ELSE "failed"
             /\ result' = IF r.ok THEN result ELSE "create_stream"
    /\ UNCHANGED <<line_count, buffer, adaptive_delay, elapsed, wire, sleeps,
                   nread, stdin_state, stdin_left,
                   end_reply, flushes_full, flushes_time>>

\* Lines 29-41: the stdin reader is set up, last_batch_time and
\* adaptive_delay are initialised.
OpenStdin ==
    /\ pc = "created"
    /\ handshake' = Dropped
    /\ adaptive_delay' = INITIAL_DELAY_MS
    /\ elapsed' = FALSE
    /\ pc' = "read"
    /\ UNCHANGED <<stream_id, line_count, buffer, result, wire, sleeps, nread,
                   stdin_state, stdin_left, end_reply, flushes_full, flushes_time>>

\* lines.next_line().await yields a line: lines 43-58 and, when no batch is
\* due, lines 86-98.  timePassed: the wait made elapsed() reach the delay.
ReadLine ==
    /\ pc = "read"
    /\ stdin_left > 0
    /\ \E timePassed \in BOOLEAN :
         LET buf == Append(buffer, LineText(nread + 1))
             timeUp == elapsed \/ timePassed
         IN  /\ nread' = nread + 1
             /\ stdin_left' = stdin_left - 1
             /\ line_count' = line_count + 1
             /\ buffer' = buf
             /\ elapsed' = timeUp
             /\ pc' = IF ShouldSendBatch(buf, timeUp)
                      THEN "flush"
                      ELSE AfterIteration(line_count + 1)
    /\ UNCHANGED <<stream_id, adaptive_delay, result, wire, sleeps, handshake,
                   stdin_state, end_reply, flushes_full, flushes_time>>

\* lines.next_line().await yields None: the loop ends.
ReadEof ==
    /\ pc = "read"
    /\ stdin_state' = "eof"
    /\ pc' = "shutdown"
    /\ UNCHANGED <<stream_id, line_count, buffer, adaptive_delay, elapsed, result,
                   wire, sleeps, handshake, nread, stdin_left,
                   end_reply, flushes_full, flushes_time>>

\* lines.next_line().await yields an I/O error: `?` returns it.
ReadError ==
    /\ pc = "read"
    /\ stdin_state' = "error"
    /\ pc' = "failed"
    /\ result' = "next_line"
    /\ UNCHANGED <<stream_id, line_count, buffer, adaptive_delay, elapsed,
                   wire, sleeps, handshake, nread, stdin_left,
                   end_reply, flushes_full, flushes_time>>

\* Lines 59-78 and, on success without rate limiting, 80-98.
FlushBatch ==
    /\ pc = "flush"
    /\ \E failAt \in 0..Len(buffer) :
         LET r == send_batch(buffer, stream_id, failAt)
         IN  /\ wire' = wire \o r.out
             /\ buffer' = r.buffer
             /\ IF r.ok
                THEN /\ adaptive_delay' = DelayOnSuccess(adaptive_delay)
                     /\ elapsed' = FALSE
                     /\ pc' = IF RateLimited(line_count)
                              THEN "ratelimit"
                              ELSE AfterIteration(line_count)
                ELSE /\ adaptive_delay' = DelayOnFailure(adaptive_delay)
                     /\ elapsed' = elapsed
                     /\ pc' = "backoff"
    /\ flushes_full' = flushes_full + (IF FlushTrigger(buffer) = "full" THEN 1 ELSE 0)
    /\ flushes_time' = flushes_time + (IF FlushTrigger(buffer) = "time" THEN 1 ELSE 0)
    /\ UNCHANGED <<stream_id, line_count, result, sleeps, handshake, nread,
                   stdin_state, stdin_left, end_reply>>

\* Lines 82-98: the rate-limiting sleep, then the end of the iteration.
\* last_batch_time was reset before the sleep, so it has elapsed after it.
RateLimitSleep ==
    /\ pc = "ratelimit"
    /\ sleeps' = Append(sleeps, adaptive_delay)
    /\ elapsed' = TRUE
    /\ pc' = AfterIteration(line_count)
    /\ UNCHANGED <<stream_id, line_count, buffer, adaptive_delay, result, wire,
                   handshake, nread, stdin_state, stdin_left,
                   end_reply, flushes_full, flushes_time>>

\* The sleep after a failed batch followed by a retry of the batch, as the
\* comment on line 73 ("Sleep before retrying") suggests, instead of return.
BackoffSleep_retry ==
    /\ pc = "backoff"
    /\ sleeps' = Append(sleeps, adaptive_delay)
    /\ pc' = "flush"
    /\ UNCHANGED <<stream_id, line_count, buffer, adaptive_delay, elapsed, result,
                   wire, handshake, nread, stdin_state, stdin_left,
                   end_reply, flushes_full, flushes_time>>

\* Lines 74-76: the sleep after a failed batch, then return Err(e).
BackoffSleep ==
    /\ pc = "backoff"
    /\ sleeps' = Append(sleeps, adaptive_delay)
    /\ pc' = "failed"
    /\ result' = "send_batch_loop"
    /\ UNCHANGED <<stream_id, line_count, buffer, adaptive_delay, elapsed, wire,
                   handshake, nread, stdin_state, stdin_left,
                   end_reply, flushes_full, flushes_time>>

\* The shutdown without the flush of the remaining buffered lines.
ShutdownFlush_skipped ==
    /\ pc = "shutdown"
    /\ pc' = "end_send"
    /\ UNCHANGED <<stream_id, line_count, buffer, adaptive_delay, elapsed, result,
                   wire, sleeps, handshake, nread, stdin_state, stdin_left,
          end_reply, flushes_full, flushes_time>>

\* Lines 101-104: send any remaining buffered lines.
ShutdownFlush ==
    /\ pc = "shutdown"
    /\ \E failAt \in 0..Len(buffer) :
         LET r == IF buffer # <<>>
                  THEN send_batch(buffer, stream_id, failAt)
                  ELSE [ok |-> TRUE, out |-> <<>>, buffer |-> buffer]
         IN  /\ wire' = wire \o r.out
             /\ buffer' = r.buffer
             /\ pc' = IF r.ok THEN "end_send" ELSE "failed"
             /\ result' = IF r.ok THEN result ELSE "send_batch_shutdown"
    /\ UNCHANGED <<stream_id, line_count, adaptive_delay, elapsed, sleeps,
                   handshake, nread, stdin_state, stdin_left,
                   end_reply, flushes_full, flushes_time>>

\* Line 107, end_stream lines 115-130: send the end-of-stream message.
EndStreamSend ==
    /\ pc = "end_send"
    /\ \E sendOk \in BOOLEAN :
         LET r == end_stream_send(stream_id, sendOk)
         IN  /\ wire' = wire \o r.out
             /\ pc' = IF r.ok THEN "end_recv" ELSE "failed"
             /\ result' = IF r.ok THEN result ELSE "end_stream_send"
    /\ UNCHANGED <<stream_id, line_count, buffer, adaptive_delay, elapsed, sleeps,
                   handshake, nread, stdin_state, stdin_left,
                   end_reply, flushes_full, flushes_time>>

\* end_stream lines 132-146 and process_stdin lines 109-110.
EndStreamRecv ==
    /\ pc = "end_recv"
    /\ \E resp \in Received :
         /\ end_reply' = resp.kind
         /\ pc' = IF end_stream_recv(resp) THEN "done" ELSE "failed"
         /\ result' = IF end_stream_recv(resp) THEN "ok" ELSE "end_stream_recv"
    /\ UNCHANGED <<stream_id, line_count, buffer, adaptive_delay, elapsed, wire,
                   sleeps, handshake, nread, stdin_state, stdin_left,
                   flushes_full, flushes_time>>

Next ==
    \/ CreateStream
    \/ OpenStdin
    \/ ReadLine
    \/ ReadEof
    \/ ReadError
    \/ FlushBatch
    \/ RateLimitSleep
    \/ BackoffSleep
    \/ ShutdownFlush
    \/ EndStreamSend
    \/ EndStreamRecv

Spec == Init /\ [][Next]_vars

\* A loop-head state late in a run over a long input: so far every line
\* arrived after the delay had elapsed and was flushed alone, except the
\* lines whose number is a multiple of MAX_LINES_PER_SECOND, which arrived
\* early and were flushed with the next line (so no rate-limiting sleep took
\* place); every flush succeeded, and the last one followed line CapStart.
InitCap ==
    /\ pc = "read"
    /\ stream_id = "s1"
    /\ line_count = CapStart
    /\ buffer = <<>>
    /\ adaptive_delay = MIN_DELAY_MS
    /\ elapsed = FALSE
    /\ result = "running"
    /\ wire = [i \in 1..CapStart |-> LineMessage("s1", LineText(i))]
    /\ sleeps = <<>>
    /\ handshake = Dropped
    /\ nread = CapStart
    /\ stdin_state = "open"
    /\ stdin_left = MaxInput
    /\ end_reply = "pending"
    /\ flushes_full = 0
    /\ flushes_time = CapStart - (CapStart \div MAX_LINES_PER_SECOND)

\* Runs from construction, and the tail of a run that reaches the line limit.
SpecCap == (Init \/ InitCap) /\ [][Next]_vars


(* --------------------------- observations ------------------------------ *)

Last(seq) == seq[Len(seq)]

IsLine(m) == m.type = "line"
IsEnd(m) == m.type = "end_stream"

\* Contents of the line messages on the wire, in the order they were sent.
SentLines ==
    LET lineMsgs == SelectSeq(wire, IsLine)
    IN  [i \in 1..Len(lineMsgs) |-> lineMsgs[i].content]

\* The line messages send_batch hands over for the first k lines of buf.
BatchMessages(buf, sid, k) == [i \in 1..k |-> LineMessage(sid, buf[i])]

(* ------------------------------ claims --------------------------------- *)

\* C1: in every reachable state of a run the adaptive delay is at least 50
\* and at most 2000.
C1_DelayInRange ==
    MIN_DELAY_MS <= adaptive_delay /\ adaptive_delay <= MAX_DELAY_MS

\* C1 witness: a batch fails after enough successes to bring the delay down
\* to the minimum; the failure has doubled it.
C1_Witness ==
    /\ pc = "backoff"
    /\ adaptive_delay = 2 * MIN_DELAY_MS
    /\ Len(SentLines) >= 5

\* C2: line messages are on the wire in the order their lines were read
\* (the i-th line read has content LineText(i), so of two line messages the
\* earlier one carries the earlier line).
C2_SentInInputOrder ==
    \A i \in 1..(Len(SentLines) - 1) : SentLines[i] < SentLines[i + 1]

\* C2 witness: a run that sent lines in at least three batches, one of them
\* because the buffer was full, and has completed.
C2_Witness ==
    /\ pc = "done"
    /\ Len(SentLines) = BUFFER_SIZE + 3
    /\ adaptive_delay = INITIAL_DELAY_MS - 3 * DELAY_STEP_MS

\* The handshake failures C3 names: the connection closes or yields nothing,
\* or the response object holds no string under either identifier key (with
\* or without an error field).
C3_FailedHandshake ==
    \/ handshake.kind \in {"close", "none"}
    \/ /\ handshake.kind = "text"
       /\ handshake.valid
       /\ handshake.streamId.t # "str"
       /\ handshake.stream_id.t # "str"

\* C3: after a failed handshake the run has returned create_stream's error,
\* has read no line and has sent nothing, and stays so.
C3_HandshakeFailureAborts ==
    C3_FailedHandshake =>
        /\ pc = "failed"
        /\ result = "create_stream"
        /\ nread = 0
        /\ line_count = 0
        /\ wire = <<>>
        /\ stream_id = None

\* C3 witness: the response {"error": "unauthorized"} has been received.
C3_Witness ==
    /\ handshake.kind = "text"
    /\ handshake.valid
    /\ handshake.streamId = JAbsent
    /\ handshake.stream_id = JAbsent
    /\ handshake.error = JStr("unauthorized")
    /\ pc = "failed"

\* C4: stream_id is set once, by the handshake, and never changes afterwards;
\* every message on the wire carries it; send_line and end_stream fail and
\* send nothing while it is unset.
C4_StreamIdFixed ==
    /\ [][stream_id # None => stream_id' = stream_id]_vars
    /\ [][stream_id' # stream_id =>
            /\ pc = "handshake"
            /\ stream_id' \in StreamIds
            /\ stream_id' \in {handshake'.streamId.s, handshake'.stream_id.s}]_vars
    /\ [](\A i \in 1..Len(wire) : stream_id # None /\ wire[i].stream_id = stream_id)
    /\ [](\A line \in 1..2, sendOk \in BOOLEAN :
            /\ send_line(None, line, sendOk) = [ok |-> FALSE, out |-> <<>>]
            /\ end_stream_send(None, sendOk) = [ok |-> FALSE, out |-> <<>>])

\* C4 witness: a completed run under the identifier "s2" whose wire holds
\* line messages and the end-of-stream message.
C4_Witness ==
    /\ pc = "done"
    /\ stream_id = "s2"
    /\ Len(SentLines) >= 2
    /\ IsEnd(Last(wire))

\* C5: the buffer never holds more than bufferSize lines, in particular when
\* the flush predicate has just been evaluated.
C5_BufferBounded == Len(buffer) <= BUFFER_SIZE

\* C5 witness: the push filled the buffer and a batch is due; an earlier
\* batch was sent because time had elapsed.
C5_Witness ==
    /\ pc = "flush"
    /\ Len(buffer) = BUFFER_SIZE
    /\ wire # <<>>
    /\ line_count < 2 * BUFFER_SIZE

\* C6: line_count is 0 before the first read, grows by exactly 1 with each
\* line read and in no other step, never decreases, equals the number of
\* lines read in every state (so also at the end of the run), and is at
\* most 10001.
C6_LineCountCountsReads ==
    /\ [](pc = "handshake" => line_count = 0)
    /\ [](line_count = nread /\ line_count <= LINE_LIMIT + 1)
    /\ [][\/ line_count' = line_count /\ nread' = nread
          \/ line_count' = line_count + 1 /\ nread' = nread + 1]_vars

\* C6 witness: a run over an input of more than 10001 lines has ended, in
\* success or in a transmit error, with 10001 lines counted.
C6_Witness ==
    /\ pc \in {"done", "failed"}
    /\ line_count = LINE_LIMIT + 1
    /\ stdin_state = "open"
    /\ stdin_left > 0

\* C7: a flush sends the buffered lines in order up to the first send that
\* fails.  With a failure the buffer is left as it was, the run takes the
\* error path and sends nothing more; without one the buffer is emptied.
\* The buffer is emptied in no other way.
C7_FlushAbortsOnFirstFailure ==
    /\ [][(pc \in {"flush", "shutdown"} /\ buffer # <<>>) =>
            LET k == Len(wire') - Len(wire)
            IN  /\ k \in 0..Len(buffer)
                /\ wire' = wire \o BatchMessages(buffer, stream_id, k)
                /\ \/ k = Len(buffer) /\ buffer' = <<>> /\ pc' \notin {"backoff", "failed"}
                   \/ k < Len(buffer) /\ buffer' = buffer /\ pc' \in {"backoff", "failed"}]_vars
    /\ [][(pc \in {"backoff", "failed"}) => (wire' = wire /\ buffer' = buffer)]_vars
    /\ [][(buffer # <<>> /\ buffer' = <<>>) =>
            wire' = wire \o BatchMessages(buffer, stream_id, Len(buffer))]_vars

\* C7 witness: the third send of a batch of at least four lines has failed:
\* the first two lines are on the wire and still in the buffer.
C7_Witness ==
    /\ pc = "backoff"
    /\ Len(buffer) >= 4
    /\ SentLines # <<>>
    /\ Last(SentLines) = buffer[2]

\* C8 as stated: every flush that fails, in the loop or at shutdown, doubles
\* the delay (up to 2000), and the run sleeps that long before it returns
\* the error.
C8_BackoffOnEveryFailure ==
    /\ [][(pc \in {"flush", "shutdown"} /\ pc' \in {"backoff", "failed"}) =>
            adaptive_delay' = Min(MAX_DELAY_MS, adaptive_delay * 2)]_vars
    /\ []((pc = "failed" /\ result \in {"send_batch_loop", "send_batch_shutdown"}) =>
            (sleeps # <<>> /\ Last(sleeps) = adaptive_delay))

\* C8 amended: a flush that fails inside the main loop doubles the delay (up
\* to 2000) and the run sleeps that long, then returns the error; a shutdown
\* flush that fails returns the error at once, with the delay unchanged and
\* no sleep.
C8_BackoffOnLoopFailure ==
    /\ [][(pc = "flush" /\ pc' # pc /\ Len(wire') - Len(wire) < Len(buffer)) =>
            /\ pc' = "backoff"
            /\ adaptive_delay' = Min(MAX_DELAY_MS, adaptive_delay * 2)
            /\ sleeps' = sleeps]_vars
    /\ [][pc = "backoff" =>
            /\ pc' = "failed"
            /\ result' = "send_batch_loop"
            /\ sleeps' = Append(sleeps, adaptive_delay)
            /\ adaptive_delay' = adaptive_delay]_vars
    /\ []((pc = "failed" /\ result = "send_batch_loop") =>
            (sleeps # <<>> /\ Last(sleeps) = adaptive_delay))
    /\ [][(pc = "shutdown" /\ pc' # pc /\ Len(wire') - Len(wire) < Len(buffer)) =>
            /\ pc' = "failed"
            /\ result' = "send_batch_shutdown"
            /\ adaptive_delay' = adaptive_delay
            /\ sleeps' = sleeps]_vars

\* C8 witness: the first flush of the run, in the loop, has failed; the run
\* has slept 200 ms and returned the error.
C8_Witness ==
    /\ pc = "failed"
    /\ result = "send_batch_loop"
    /\ SentLines = <<>>
    /\ adaptive_delay = Min(MAX_DELAY_MS, INITIAL_DELAY_MS * 2)
    /\ sleeps = <<adaptive_delay>>

LoopEnded == stdin_state = "eof" \/ line_count > LINE_LIMIT

\* C10: the run passes the loop only when the input is exhausted or the line
\* limit is hit; when the end-of-stream message is sent the buffer is empty
\* and every line read is on the wire; the end-of-stream message is sent
\* once and is the last message; a run that returns Ok has sent it.
C10_EndOfStreamLast ==
    /\ pc \in {"shutdown", "end_send", "end_recv", "done"} => LoopEnded
    /\ pc \in {"end_send", "end_recv", "done"} =>
         /\ buffer = <<>>
         /\ SentLines = [i \in 1..nread |-> LineText(i)]
    /\ pc \in {"end_recv", "done"} => (wire # <<>> /\ IsEnd(Last(wire)))
    /\ \A i \in 1..Len(wire) :
         IsEnd(wire[i]) => (i = Len(wire) /\ pc \in {"end_recv", "done", "failed"})

\* C10 witness: a run stopped by the line limit has flushed the lines left
\* in the buffer, sent the end-of-stream message and returned Ok.
C10_Witness ==
    /\ pc = "done"
    /\ stdin_state = "open"
    /\ line_count > LINE_LIMIT
    /\ Len(wire) = nread + 1
    /\ ~IsEnd(wire[Len(wire) - 1])
    /\ wire[Len(wire) - 1].content = LineText(nread)

\* C11 as stated: once end_stream has sent its message and its receive has
\* returned, whatever it returned, the run has ended in success.
C11_SuccessWhateverReceived ==
    end_reply # "pending" => (pc = "done" /\ result = "ok")

\* C11 amended: once the end-of-stream message has been sent, the run ends
\* in success when the receive yields a text frame, a close frame, any other
\* frame or the end of the connection; when the receive yields an error the
\* run returns that error.
C11_SuccessUnlessReceiveError ==
    /\ end_reply # "pending" => (wire # <<>> /\ IsEnd(Last(wire)))
    /\ end_reply \in {"text", "close", "other", "none"} =>
         (pc = "done" /\ result = "ok")
    /\ end_reply = "err" => (pc = "failed" /\ result = "end_stream_recv")
    /\ pc = "done" => end_reply \in {"text", "close", "other", "none"}

\* C11 witness: the connection ended without any response to the
\* end-of-stream message and the run returned Ok.
C11_Witness ==
    /\ end_reply = "none"
    /\ pc = "done"
    /\ result = "ok"
    /\ SentLines # <<>>

\* The wire of a complete run over the first n lines under the identifier sid.
WholeRun(sid, n) ==
    [i \in 1..n |-> LineMessage(sid, LineText(i))] \o <<EndMessage(sid)>>

\* A run over an input of exactly n lines has returned Ok.
CompletedOver(n) == pc = "done" /\ stdin_state = "eof" /\ nread = n

\* C12 as stated: a successful run over exactly 3 lines made no flush in the
\* loop, whatever the timing; the shutdown flush sent the 3 lines in order,
\* after the handshake and before the one end-of-stream message.
C12_OneFlushAtEnd ==
    CompletedOver(3) =>
        /\ flushes_full + flushes_time = 0
        /\ stream_id \in StreamIds
        /\ wire = WholeRun(stream_id, 3)

\* C12 amended: the same, provided every line is appended before the
\* adaptive delay has elapsed since the last flush (no flush was triggered
\* by time).  Then the shutdown flush finds all 3 lines in the buffer and
\* nothing on the wire.
C12_OneFlushAtEndIfInTime ==
    /\ (CompletedOver(3) /\ flushes_time = 0) =>
         /\ flushes_full = 0
         /\ stream_id \in StreamIds
         /\ wire = WholeRun(stream_id, 3)
    /\ (pc = "shutdown" /\ stdin_state = "eof" /\ nread = 3 /\ flushes_time = 0) =>
         /\ flushes_full = 0
         /\ buffer = <<LineText(1), LineText(2), LineText(3)>>
         /\ wire = <<>>

\* C12 witness: a run over 3 lines that arrived in time has returned Ok.
C12_Witness ==
    /\ CompletedOver(3)
    /\ flushes_time = 0
    /\ Len(wire) = 4
    /\ adaptive_delay = INITIAL_DELAY_MS

\* C13 as stated: a successful run over exactly 10 lines made exactly one
\* flush, triggered by the full buffer and not by time, which sent all 10
\* lines, whatever the timing.
C13_OneFullFlush ==
    CompletedOver(10) =>
        /\ flushes_full = 1
        /\ flushes_time = 0
        /\ wire = WholeRun(stream_id, 10)

\* C13 amended: the same, provided each of the first 9 lines is appended
\* before the adaptive delay has elapsed since the last flush (no flush was
\* triggered by time).  Then the flush in the loop is made for the full
\* buffer holding all 10 lines, and the shutdown finds the buffer empty.
C13_OneFullFlushIfInTime ==
    /\ (CompletedOver(10) /\ flushes_time = 0) =>
         /\ flushes_full = 1
         /\ wire = WholeRun(stream_id, 10)
    /\ (pc = "flush" /\ nread = 10 /\ flushes_time = 0) =>
         /\ flushes_full = 0
         /\ FlushTrigger(buffer) = "full"
         /\ buffer = [i \in 1..10 |-> LineText(i)]
         /\ wire = <<>>
    /\ (pc = "shutdown" /\ stdin_state = "eof" /\ nread = 10 /\ flushes_time = 0) =>
         /\ flushes_full = 1
         /\ buffer = <<>>

\* C13 witness: a run over 10 lines that arrived in time has returned Ok
\* after its one flush.
C13_Witness ==
    /\ CompletedOver(10)
    /\ flushes_time = 0
    /\ flushes_full = 1
    /\ adaptive_delay = INITIAL_DELAY_MS - DELAY_STEP_MS

\* Flushes attempted in the loop so far.
LoopFlushes == flushes_full + flushes_time

\* The last flush attempted in the loop failed.
LoopFlushFailed == pc = "backoff" \/ result = "send_batch_loop"

\* The delay after n successful flushes in a row from the initial delay.
DelayAfterSuccesses(n) == Max(MIN_DELAY_MS, INITIAL_DELAY_MS - DELAY_STEP_MS * n)

\* C14: while no flush of the loop has failed, after N successful ones the
\* delay is max(50, 100 - 10*N); it is never below 50, so the subtraction of
\* the next success does not underflow.
C14_DelayAfterSuccesses ==
    /\ (pc \notin {"handshake", "created"} /\ ~LoopFlushFailed) =>
         adaptive_delay = DelayAfterSuccesses(LoopFlushes)
    /\ adaptive_delay >= MIN_DELAY_MS
    /\ adaptive_delay - DELAY_STEP_MS >= 0

\* C14 witness: seven flushes of the loop have succeeded; the delay reached
\* 50 with the fifth and has stayed there.
C14_Witness ==
    /\ LoopFlushes = 7
    /\ ~LoopFlushFailed
    /\ pc = "read"
    /\ adaptive_delay = MIN_DELAY_MS

\* C15 as stated: a failed flush, whether made in the loop or at shutdown,
\* leaves the delay at min(2000, 2 * d0), d0 being the delay before it.
C15_DelayAfterFailure ==
    /\ LoopFlushFailed =>
         adaptive_delay = Min(MAX_DELAY_MS, 2 * DelayAfterSuccesses(LoopFlushes - 1))
    /\ result = "send_batch_shutdown" =>
         adaptive_delay = Min(MAX_DELAY_MS, 2 * DelayAfterSuccesses(LoopFlushes))

\* C15 amended: a failed flush of the main loop leaves the delay at
\* min(2000, 2 * d0); it ends the run, so N = 1 is the only case.  A failed
\* shutdown flush leaves the delay at d0.
C15_DelayAfterLoopFailure ==
    /\ LoopFlushFailed =>
         adaptive_delay = Min(MAX_DELAY_MS, 2 * DelayAfterSuccesses(LoopFlushes - 1))
    /\ result = "send_batch_shutdown" =>
         adaptive_delay = DelayAfterSuccesses(LoopFlushes)
    /\ result \in {"send_batch_loop", "send_batch_shutdown"} => pc = "failed"

\* C15 witness: the fourth flush of the loop has failed: the delay went from
\* 70 to 140.
C15_Witness ==
    /\ pc = "failed"
    /\ result = "send_batch_loop"
    /\ LoopFlushes = 4
    /\ adaptive_delay = 2 * (INITIAL_DELAY_MS - 3 * DELAY_STEP_MS)

\* The identifier C16 expects from a response object: the string under
\* streamId if there is one, else the string under stream_id if there is one.
StringIdentifier(resp) ==
    IF resp.streamId.t = "str" THEN resp.streamId.s
    ELSE IF resp.stream_id.t = "str" THEN resp.stream_id.s
    ELSE None

\* C16: whenever the response object holds a string under streamId or under
\* stream_id, the handshake succeeds with that identifier (streamId first),
\* also when an error field is present.
C16_IdentifierByFallback ==
    (handshake.kind = "text" /\ handshake.valid /\ StringIdentifier(handshake) # None) =>
        (pc = "created" /\ stream_id = StringIdentifier(handshake))

\* How many steps the run can still take at most: three for each line the
\* limit still allows (read, flush, rate-limiting sleep), then the shutdown
\* flush and the two halves of end_stream.  It does not depend on how much
\* input is left.
StepsLeft ==
    LET lines == 3 * (LINE_LIMIT + 1 - line_count) IN
    CASE pc = "handshake" -> lines + 6
      [] pc = "created"   -> lines + 5
      [] pc = "read"      -> lines + 4
      [] pc = "flush"     -> lines + 6
      [] pc = "ratelimit" -> lines + 5
      [] pc = "shutdown"  -> 3
      [] pc = "end_send"  -> 2
      [] pc = "end_recv"  -> 1
      [] pc = "backoff"   -> 1
      [] OTHER            -> 0

\* The loop was left by the line limit, not by the end of the input.
StoppedByLimit ==
    /\ pc \in {"shutdown", "end_send", "end_recv", "done", "failed"}
    /\ stdin_state = "open"
    /\ result \notin {"create_stream", "next_line", "send_batch_loop"}

\* C17: every run terminates, also over an input longer than the limit:
\* each step lowers StepsLeft, a natural number, and only a run that has
\* returned has no step to take.  The loop is left by the limit exactly when
\* the 10001st line has been counted, and nothing is read afterwards; what is
\* left in the buffer is flushed, the end-of-stream message is sent and the
\* run returns Ok, unless one of these transport calls fails.
C17_TerminatesWithinLimit ==
    /\ [](StepsLeft \in Nat)
    /\ [][StepsLeft' < StepsLeft]_vars
    /\ [](pc \notin {"done", "failed"} => ENABLED Next)
    /\ [](StoppedByLimit => line_count = LINE_LIMIT + 1)
    /\ [](line_count > LINE_LIMIT => pc # "read")
    /\ [][line_count > LINE_LIMIT => (nread' = nread /\ stdin_left' = stdin_left)]_vars
    /\ []((StoppedByLimit /\ pc = "failed") =>
            result \in {"send_batch_shutdown", "end_stream_send", "end_stream_recv"})
    /\ []((StoppedByLimit /\ pc = "done") =>
            /\ result = "ok"
            /\ buffer = <<>>
            /\ wire = WholeRun(stream_id, LINE_LIMIT + 1))

\* C17 witness: the run over an input that goes on past the limit has
\* returned Ok with 10001 lines and the end-of-stream message on the wire.
C17_Witness ==
    /\ StoppedByLimit
    /\ pc = "done"
    /\ result = "ok"
    /\ stdin_left > 0
    /\ Len(wire) = LINE_LIMIT + 2


\* C18: no run reads, counts or transmits more than 10,000 input lines.
C18_AtMostTenThousand ==
    /\ nread <= LINE_LIMIT
    /\ line_count <= LINE_LIMIT
    /\ Len(SentLines) <= LINE_LIMIT

\* C19: the rate-limiting sleep is taken exactly after a flush of the loop
\* that succeeded with the line count a multiple of 30; it lasts the delay
\* that flush has already reduced and changes neither the delay nor the
\* count.  An iteration without a flush, or with a failed one, takes no such
\* sleep, whatever the line count.
C19_RateLimitSleep ==
    /\ [][(pc = "flush" /\ pc' # "backoff") =>
            (pc' = "ratelimit" <=> line_count % MAX_LINES_PER_SECOND = 0)]_vars
    /\ [][(pc' = "ratelimit") =>
            /\ pc = "flush"
            /\ buffer' = <<>>
            /\ line_count' = line_count
            /\ adaptive_delay' = Max(MIN_DELAY_MS, adaptive_delay - DELAY_STEP_MS)]_vars
    /\ [][(pc = "ratelimit") =>
            /\ sleeps' = Append(sleeps, adaptive_delay)
            /\ adaptive_delay' = adaptive_delay
            /\ line_count' = line_count
            /\ pc' = "read"]_vars
    /\ [][(pc \notin {"ratelimit", "backoff"}) => sleeps' = sleeps]_vars

\* C19 witness: the 30th line was flushed with success and the run has slept
\* once, for the delay as that flush left it.
C19_Witness ==
    /\ pc = "read"
    /\ line_count = MAX_LINES_PER_SECOND
    /\ buffer = <<>>
    /\ sleeps = <<adaptive_delay>>
    /\ result = "running"

\* C20: the lines on the wire are the first lines read, in input order and
\* none twice; until a flush fails the lines read are those on the wire
\* followed by those in the buffer; a run that returned Ok has sent every
\* line it read.
C20_SentIsPrefixOfRead ==
    /\ Len(SentLines) <= nread
    /\ SentLines = [i \in 1..Len(SentLines) |-> LineText(i)]
    /\ pc \in {"read", "flush", "ratelimit", "shutdown"} =>
         SentLines \o buffer = [i \in 1..nread |-> LineText(i)]
    /\ pc = "done" => Len(SentLines) = nread

\* C20 witness: a run over 21 lines has returned Ok after two flushes of a
\* full buffer and a shutdown flush of the last line.
C20_Witness ==
    /\ pc = "done"
    /\ nread = 2 * BUFFER_SIZE + 1
    /\ flushes_full = 2
    /\ flushes_time = 0
    /\ Len(SentLines) = nread

=============================================================================
